---- MODULE Spec2Model ----
(***************************************************************************)
(* Model of the uniproxy panel client (pkg/client.go): the conditional     *)
(* fetch / cache layer of GetNodeInfo and GetUserList, the client's        *)
(* sync.RWMutex and the panel as seen through the HTTP transport.          *)
(***************************************************************************)
EXTENDS Integers, Sequences, FiniteSets, TLC

(* ---- bounds ---- *)
NumThreads == 2
MaxCalls == 2
MaxPanelChanges == 1
MaxUpper == 1
MaxRoutes == 2
MaxTraffic == 2

Threads == 1..NumThreads
NoThread == 0

(* ---- the panel's possible answers ---- *)
GoodBodies == {"B1", "B2"}
BadBodies == {"Bad"}
Bodies == GoodBodies \cup BadBodies
ErrBody == "ErrBody"
Etags == {"e1", "e2"}
ErrStatuses == {500}
UserBodies == {"U1", "U2", "UBad"}
\* the user endpoint's ETag is a function of the body it serves
UserEtagOf(body) == IF body = "U1" THEN "ue1" ELSE IF body = "U2" THEN "ue2" ELSE "ue3"
UserEtags == {UserEtagOf(b) : b \in UserBodies}

StatusOK == 200
StatusNotModified == 304

(* sha256.Sum256 + hex.EncodeToString: a digest that is never the empty    *)
(* string and differs for different bodies.                                *)
Hash(body) == "sha256:" \o body

(* json.Unmarshal of the body into the configured protocol's struct.       *)
Decodable(body) == body \in GoodBodies

(* json.Unmarshal of a user-list body into UserListBody.                   *)
UsersDecodable(body) == body \in {"U1", "U2"}
DecodeUsers(body) == IF body = "U1" THEN <<1>> ELSE IF body = "U2" THEN <<1, 2>> ELSE <<>>

NoResp == [err |-> FALSE, status |-> 0, body |-> "", etag |-> ""]
NoRet == [node |-> "nil", users |-> <<>>, err |-> "nil"]

(* ---- node types: strings as sequences of characters ---- *)
LowerLetters == <<"a","b","c","d","e","f","g","h","i","j","k","l","m",
                  "n","o","p","q","r","s","t","u","v","w","x","y","z">>
UpperLetters == <<"A","B","C","D","E","F","G","H","I","J","K","L","M",
                  "N","O","P","Q","R","S","T","U","V","W","X","Y","Z">>

IsUpper(ch) == \E i \in DOMAIN UpperLetters : UpperLetters[i] = ch
IsLower(ch) == \E i \in DOMAIN LowerLetters : LowerLetters[i] = ch
ToLowerChar(ch) ==
  IF IsUpper(ch) THEN LowerLetters[CHOOSE i \in DOMAIN UpperLetters : UpperLetters[i] = ch] ELSE ch
ToUpperChar(ch) ==
  IF IsLower(ch) THEN UpperLetters[CHOOSE i \in DOMAIN LowerLetters : LowerLetters[i] = ch] ELSE ch

(* strings.ToLower *)
ToLower(str) == [i \in DOMAIN str |-> ToLowerChar(str[i])]

(* the node type names of the package *)
Shadowsocks == <<"s","h","a","d","o","w","s","o","c","k","s">>
Trojan == <<"t","r","o","j","a","n">>
Vmess == <<"v","m","e","s","s">>
Vless == <<"v","l","e","s","s">>
Tuic == <<"t","u","i","c">>
Hysteria == <<"h","y","s","t","e","r","i","a">>
Hysteria2 == <<"h","y","s","t","e","r","i","a","2">>
AnyTls == <<"a","n","y","t","l","s">>
V2ray == <<"v","2","r","a","y">>
UnknownType == <<"s","o","c","k","s">>

(* the security modes *)
None == 0
Tls == 1
Reality == 2

(* the node type of New: lower-cased, the alias v2ray turned into vmess;   *)
(* an unknown name is only logged.                                         *)
NormalizeNodeType(str) ==
  LET nodeType == ToLower(str)
  IN IF nodeType = V2ray THEN Vmess ELSE nodeType

(* the spellings of a name with at most MaxUpper characters in upper case *)
Spellings(name) ==
  { [i \in DOMAIN name |-> IF i \in S THEN ToUpperChar(name[i]) ELSE name[i]] :
      S \in { T \in SUBSET (DOMAIN name) : Cardinality(T) <= MaxUpper } }

ConfigNodeTypes ==
  UNION { Spellings(name) :
            name \in {Shadowsocks, Trojan, Vmess, Vless, Tuic, Hysteria, Hysteria2,
                      AnyTls, V2ray, UnknownType} }

TestNodeID == 1
Configs == [NodeType : ConfigNodeTypes, NodeID : {TestNodeID}]
TestConfig == [NodeType |-> Vmess, NodeID |-> TestNodeID]

(* the revisions of GetNodeInfo's decode: the inline switch on the node    *)
(* type, and the table of handlers                                         *)
Impls == {"switch", "handlers"}

(* ---- strings of the route rules, as sequences of characters ---- *)
Comma == ","
ProtocolPrefix == <<"p", "r", "o", "t", "o", "c", "o", "l", ":">>
RegexpPrefix == <<"r", "e", "g", "e", "x", "p", ":">>
Main == <<"m", "a", "i", "n">>
Digits == <<"0","1","2","3","4","5","6","7","8","9">>

(* strings.HasPrefix, strings.TrimPrefix *)
HasPrefix(str, prefix) ==
  Len(str) >= Len(prefix) /\ SubSeq(str, 1, Len(prefix)) = prefix
TrimPrefix(str, prefix) ==
  IF HasPrefix(str, prefix) THEN SubSeq(str, Len(prefix) + 1, Len(str)) ELSE str

(* strings.Split(str, ","): the pieces between the commas, one piece for   *)
(* a string without a comma, the empty string included                     *)
RECURSIVE Split(_)
Split(str) ==
  IF \A k \in DOMAIN str : str[k] # Comma THEN <<str>>
  ELSE LET k == CHOOSE n \in DOMAIN str :
                   str[n] = Comma /\ \A q \in 1..(n - 1) : str[q] # Comma
       IN <<SubSeq(str, 1, k - 1)>> \o Split(SubSeq(str, k + 1, Len(str)))

(* strings.Join(strs, "") *)
RECURSIVE Join(_)
Join(strs) == IF strs = <<>> THEN <<>> ELSE Head(strs) \o Join(Tail(strs))

(* strconv.Itoa for n >= 0 *)
RECURSIVE Itoa(_)
Itoa(n) == IF n < 10 THEN <<Digits[n + 1]>> ELSE Itoa(n \div 10) \o <<Digits[(n % 10) + 1]>>

(* ---- routes ---- *)
(* Route.Match is an interface{}: a string, a []string, a []interface{}    *)
(* (what a JSON array decodes to) whose elements are strings or not, or    *)
(* any other value                                                         *)
StringMatch(str) == [kind |-> "string", str |-> str, list |-> <<>>]
StringsMatch(strs) == [kind |-> "[]string", str |-> <<>>, list |-> strs]
ListMatch(elems) == [kind |-> "[]interface{}", str |-> <<>>, list |-> elems]
OtherMatch == [kind |-> "other", str |-> <<>>, list |-> <<>>]
Str(str) == [isString |-> TRUE, str |-> str]
NotStr == [isString |-> FALSE, str |-> <<>>]

(* matchs: the tokens of a route's Match; a []interface{} gives a slice of *)
(* its own length in which only the string elements are filled in          *)
Matchs(match) ==
  CASE match.kind = "string" -> Split(match.str)
    [] match.kind = "[]string" -> match.list
    [] match.kind = "[]interface{}" ->
         [j \in DOMAIN match.list |->
            IF match.list[j].isString THEN match.list[j].str ELSE <<>>]
    [] OTHER -> <<>>

(* ---- interval values: BaseConfig.PushInterval / PullInterval are any ---- *)
IntValue(n) == [kind |-> "int", n |-> n, str |-> <<>>]
Int64Value(n) == [kind |-> "int64", n |-> n, str |-> <<>>]
StringValue(str) == [kind |-> "string", n |-> 0, str |-> str]
(* a float64, in tenths: FloatValue(15) is 1.5 *)
FloatValue(tenths) == [kind |-> "float64", n |-> tenths, str |-> <<>>]
BoolValue == [kind |-> "bool", n |-> 0, str |-> <<>>]
NilValue == [kind |-> "nil", n |-> 0, str |-> <<>>]

IsDigit(ch) == \E k \in DOMAIN Digits : Digits[k] = ch
DigitValue(ch) == (CHOOSE k \in DOMAIN Digits : Digits[k] = ch) - 1

RECURSIVE DigitsValue(_)
DigitsValue(str) ==
  IF str = <<>> THEN 0
  ELSE 10 * DigitsValue(SubSeq(str, 1, Len(str) - 1)) + DigitValue(str[Len(str)])

(* strconv.Atoi with its error dropped: 0 for a string that is no integer *)
Atoi(str) ==
  LET signed == str # <<>> /\ str[1] \in {"-", "+"}
      digits == IF signed THEN Tail(str) ELSE str
  IN IF digits = <<>> \/ \E k \in DOMAIN digits : ~IsDigit(digits[k]) THEN 0
     ELSE IF signed /\ str[1] = "-" THEN 0 - DigitsValue(digits)
     ELSE DigitsValue(digits)

(* the result of a conversion: the seconds, or a panic *)
Seconds(n) == [panic |-> FALSE, seconds |-> n]
Panic == [panic |-> TRUE, seconds |-> 0]

(* IntervalToTime with the type switch: 0 for every other shape *)
IntervalToTime(v) ==
  CASE v.kind = "int" -> Seconds(v.n)
    [] v.kind = "string" -> Seconds(Atoi(v.str))
    [] v.kind = "float64" -> Seconds(v.n \div 10)
    [] OTHER -> Seconds(0)

(* IntervalToTime with reflect: reflect.TypeOf(nil) is nil and its Kind()  *)
(* panics; the default arm calls reflect.Value.Int(), which panics on a    *)
(* value that is no signed integer                                         *)
IntervalToTimeReflect(v) ==
  CASE v.kind = "nil" -> Panic
    [] v.kind = "int" -> Seconds(v.n)
    [] v.kind = "string" -> Seconds(Atoi(v.str))
    [] v.kind = "float64" -> Seconds(v.n \div 10)
    [] v.kind = "int64" -> Seconds(v.n)
    [] OTHER -> Panic

IntervalValues ==
  {IntValue(0), IntValue(30), Int64Value(30), StringValue(<<"4", "5">>), StringValue(<<"a", "b", "c">>),
   StringValue(<<"-", "5">>), StringValue(<<>>), FloatValue(600), FloatValue(15), BoolValue, NilValue}

NilBaseConfig == [isNil |-> TRUE, PushInterval |-> NilValue, PullInterval |-> NilValue]
BaseConfig(push, pull) == [isNil |-> FALSE, PushInterval |-> push, PullInterval |-> pull]

(* ---- response bodies as the decode sees them ---- *)
TlsValues == 0..3
Faults == {"syntax", "type"}
ActionValue == "1.1.1.1"
RouteId == 7
Route(match, action) == [Id |-> RouteId, Match |-> match, Action |-> action, ActionValue |-> ActionValue]

(* the match values of the routes *)
Matches ==
  {StringMatch(<<"p", "r", "o", "t", "o", "c", "o", "l", ":", "b", "i", "t", "t", "o", "r", "r", "e", "n", "t", ",", "r", "e", "g", "e", "x", "p", ":", "^", "e", "v", "i", "l">>),
   StringMatch(<<"m", "a", "i", "n", ",", "a", ",", "b">>),
   StringMatch(<<"x", ",", "y">>),
   StringMatch(Main),
   StringMatch(<<>>),
   StringsMatch(<<Main, <<"c">>>>),
   ListMatch(<<Str(<<"p", "r", "o", "t", "o", "c", "o", "l", ":", "p">>), NotStr, Str(<<"q">>)>>),
   ListMatch(<<NotStr>>),
   OtherMatch}
Actions == {"block", "dns", "default_out"}
Routes == {Route(match, action) : match \in Matches, action \in Actions}

RECURSIVE RouteLists(_)
RouteLists(n) ==
  IF n = 0 THEN {<<>>}
  ELSE RouteLists(n - 1) \cup
       {Append(rs, r) : rs \in {l \in RouteLists(n - 1) : Len(l) = n - 1}, r \in Routes}

(* the body of the mock server, then bodies that differ from it in one part *)
DefaultBody ==
  [ok |-> TRUE, fault |-> "nil", tls |-> 0, server_port |-> 1234,
   network_settings |-> "", networkSettings |-> "",
   tls_settings |-> "zero", tlsSettings |-> "nil",
   routes |-> <<>>, base_config |-> NilBaseConfig]
TlsBodies == {[DefaultBody EXCEPT !.tls = t] : t \in TlsValues}
MalformedBodies ==
  {[DefaultBody EXCEPT !.ok = FALSE, !.fault = f, !.tls = t] : f \in Faults, t \in TlsValues}
LegacyBodies ==
  {[DefaultBody EXCEPT !.network_settings = ns, !.networkSettings = nsBack,
                       !.tls_settings = ts, !.tlsSettings = tsBack] :
     ns \in {"", "ns"}, nsBack \in {"", "nsBack"}, ts \in {"zero", "ts"}, tsBack \in {"nil", "tsBack"}}
IntervalBodies ==
  {[DefaultBody EXCEPT !.base_config = BaseConfig(push, pull)] :
     push \in IntervalValues, pull \in {NilValue, IntValue(60)}}
RouteBodies ==
  {[DefaultBody EXCEPT !.routes = <<Route(match, action)>>] :
     match \in {StringMatch(<<"p", "r", "o", "t", "o", "c", "o", "l", ":", "b", "i", "t", "t", "o", "r", "r", "e", "n", "t", ",", "r", "e", "g", "e", "x", "p", ":", "^", "e", "v", "i", "l">>), ListMatch(<<NotStr>>)}, action \in Actions}
PortBodies == {[DefaultBody EXCEPT !.server_port = 443]}
NodeBodies ==
  TlsBodies \cup MalformedBodies \cup LegacyBodies \cup IntervalBodies \cup RouteBodies \cup PortBodies
NoBody == [DefaultBody EXCEPT !.ok = FALSE, !.fault = "none", !.tls = -1]

(* payloads: the struct a body is decoded into. VMessNode and VlessNode    *)
(* have a Tls field; in src/pkg/model.go they also have the legacy fields  *)
(* TlsSettingsBack and NetworkSettingsBack, in the other revision not.     *)
Nil == [struct |-> "nil"]
VMessNode(b) ==
  [struct |-> "VMessNode", Tls |-> b.tls,
   TlsSettings |-> b.tls_settings, TlsSettingsBack |-> b.tlsSettings,
   NetworkSettings |-> b.network_settings, NetworkSettingsBack |-> b.networkSettings]
VlessNode(b) ==
  [struct |-> "VlessNode", Tls |-> b.tls,
   TlsSettings |-> b.tls_settings, TlsSettingsBack |-> b.tlsSettings,
   NetworkSettings |-> b.network_settings, NetworkSettingsBack |-> b.networkSettings]
VMessNodeCanonical(b) ==
  [struct |-> "VMessNode", Tls |-> b.tls,
   TlsSettings |-> b.tls_settings, NetworkSettings |-> b.network_settings]
VlessNodeCanonical(b) ==
  [struct |-> "VlessNode", Tls |-> b.tls,
   TlsSettings |-> b.tls_settings, NetworkSettings |-> b.network_settings]
ShadowsocksNode(b) == [struct |-> "ShadowsocksNode"]
TrojanNode(b) == [struct |-> "TrojanNode"]
TuicNode(b) == [struct |-> "TuicNode"]
AnyTlsNode(b) == [struct |-> "AnyTlsNode"]
HysteriaNode(b) == [struct |-> "HysteriaNode"]
Hysteria2Node(b) == [struct |-> "Hysteria2Node"]

(* the CommonNode embedded in every payload *)
CommonNode(b) ==
  [isNil |-> FALSE, ServerPort |-> b.server_port, Routes |-> b.routes, BaseConfig |-> b.base_config]
NilCommonNode == [isNil |-> TRUE, ServerPort |-> 0, Routes |-> <<>>, BaseConfig |-> NilBaseConfig]

PayloadFields == {"VMess", "Vless", "Shadowsocks", "Trojan", "Tuic", "AnyTls",
                  "Hysteria", "Hysteria2"}

EmptyMap == [k \in {} |-> Nil]

(* the NodeInfo that GetNodeInfo allocates before decoding *)
NewNodeInfoUntyped(id, type) ==
  [Id |-> 0, Type |-> <<>>, Security |-> 0,
   PushInterval |-> 0, PullInterval |-> 0,
   RawDNS |-> [DNSMap |-> EmptyMap, DNSJson |-> <<>>],
   Rules |-> [Regexp |-> <<>>, Protocol |-> <<>>],
   VMess |-> Nil, Vless |-> Nil, Shadowsocks |-> Nil, Trojan |-> Nil,
   Tuic |-> Nil, AnyTls |-> Nil, Hysteria |-> Nil, Hysteria2 |-> Nil,
   Common |-> NilCommonNode]
NewNodeInfo(id, type) ==
  [Id |-> id, Type |-> type, Security |-> 0,
   PushInterval |-> 0, PullInterval |-> 0,
   RawDNS |-> [DNSMap |-> EmptyMap, DNSJson |-> <<>>],
   Rules |-> [Regexp |-> <<>>, Protocol |-> <<>>],
   VMess |-> Nil, Vless |-> Nil, Shadowsocks |-> Nil, Trojan |-> Nil,
   Tuic |-> Nil, AnyTls |-> Nil, Hysteria |-> Nil, Hysteria2 |-> Nil,
   Common |-> NilCommonNode]

(* what GetNodeInfo returns: (node, err), or the panic that ends it; a     *)
(* decode error names a node type and wraps a cause                        *)
Returned(info) ==
  [isNil |-> FALSE, node |-> info, err |-> "nil", names |-> <<>>, cause |-> "nil", panic |-> FALSE]
ReturnedError(e) ==
  [isNil |-> TRUE, node |-> NewNodeInfo(0, <<>>), err |-> e, names |-> <<>>, cause |-> "nil",
   panic |-> FALSE]
DecodeError(type, cause) ==
  [isNil |-> TRUE, node |-> NewNodeInfo(0, <<>>), err |-> "decode", names |-> type,
   cause |-> cause, panic |-> FALSE]
Panicked ==
  [isNil |-> TRUE, node |-> NewNodeInfo(0, <<>>), err |-> "none", names |-> <<>>, cause |-> "nil",
   panic |-> TRUE]
NoOut ==
  [isNil |-> TRUE, node |-> NewNodeInfo(0, <<>>), err |-> "none", names |-> <<>>, cause |-> "nil",
   panic |-> FALSE]

(* ---- APIError ---- *)
MaxStatusCode == 700
StatusCodes == -1..MaxStatusCode

ErrorTypeServerError == "ServerError"
ErrorTypeNetworkError == "NetworkError"
ErrorTypeParseError == "ParseError"
ErrorTypeNotModified == "NotModified"
ErrorTypeUnknown == "Unknown"

NoAPIError == [StatusCode |-> 0, Type |-> "none"]

NewAPIError(statusCode, errorType) == [StatusCode |-> statusCode, Type |-> errorType]

getErrorTypeFromStatusCodeOnly5xx(statusCode) ==
  IF statusCode = StatusNotModified THEN ErrorTypeNotModified
  ELSE IF statusCode >= 500 /\ statusCode < 600 THEN ErrorTypeServerError
  ELSE ErrorTypeUnknown

getErrorTypeFromStatusCode(statusCode) ==
  IF statusCode = StatusNotModified THEN ErrorTypeNotModified
  ELSE IF statusCode >= 400 /\ statusCode < 600 THEN ErrorTypeServerError
  ELSE ErrorTypeUnknown

IsServerError(e) == e.StatusCode >= 400 /\ e.StatusCode < 600
IsNotModified(e) == e.StatusCode = StatusNotModified \/ e.Type = ErrorTypeNotModified

(* ---- the reports ---- *)
(* a UserTraffic record; Upload and Download are int64 and are only copied *)
UserTraffic(uid, upload, download) == [UID |-> uid, Upload |-> upload, Download |-> download]
TrafficRecords == {UserTraffic(1, 10, 5), UserTraffic(1, 20, 7), UserTraffic(2, 10, 5)}
RECURSIVE TrafficLists(_)
TrafficLists(n) ==
  IF n = 0 THEN {<<>>}
  ELSE TrafficLists(n - 1) \cup
         {Append(l, x) : l \in {k \in TrafficLists(n - 1) : Len(k) = n - 1}, x \in TrafficRecords}
(* the online users of ReportNodeOnlineUsers: user id to the addresses seen *)
AliveData == {EmptyMap, [u \in {1} |-> <<"10.0.0.1">>], [u \in {1, 2} |-> <<"10.0.0.1", "10.0.0.2">>]}
NoReport ==
  [path |-> "none", input |-> <<>>, body |-> EmptyMap,
   resp |-> [err |-> FALSE, status |-> 0, body |-> "", etag |-> ""], err |-> "none"]

VARIABLES
  nodeEtag, userEtag, responseBodyHash, UserList,   \* Client fields
  mu,                                               \* Client.mu (sync.RWMutex)
  pc, op, calls,                                    \* each caller's position, calls started
  currentEtag, currentBodyHash, resp, ret,          \* each call's locals and result
  panelBody, panelEtag, panelChanges,               \* the panel's node config
  hashSource, etagSource,                           \* the responses the stored hash and ETag were taken from
  config, impl,                                     \* the Config given to New, the revision of GetNodeInfo's decode
  constructed,                                      \* New has returned the client
  NodeType, NodeId,                                 \* Client fields set by New
  nodeBody, out,                                    \* the body GetNodeInfo decodes, what it returns
  apiErr,                                           \* the APIError built last
  cm, node, routeIndex,                             \* the CommonNode being processed, the NodeInfo it fills, the loop position
  report, debug                                     \* the last report posted to the panel, the transport's debug switch

cache == <<nodeEtag, userEtag, responseBodyHash, UserList>>
locals == <<currentEtag, currentBodyHash, resp, ret>>
panel == <<panelBody, panelEtag, panelChanges>>
sources == <<hashSource, etagSource>>
parse == <<config, impl, constructed, NodeType, NodeId, nodeBody, out>>
aux == <<apiErr, cm, node, routeIndex>>
ops == <<report, debug>>
vars == <<nodeEtag, userEtag, responseBodyHash, UserList, mu, pc, op, calls,
          currentEtag, currentBodyHash, resp, ret,
          panelBody, panelEtag, panelChanges, hashSource, etagSource,
          config, impl, constructed, NodeType, NodeId, nodeBody, out, apiErr, cm, node, routeIndex,
          report, debug>>

(* ---- sync.RWMutex ---- *)
CanRLock == mu.writer = NoThread
CanLock == mu.writer = NoThread /\ mu.readers = {}
RLocked(t) == [mu EXCEPT !.readers = @ \cup {t}]
RUnlocked(t) == [mu EXCEPT !.readers = @ \ {t}]
Locked(t) == [mu EXCEPT !.writer = t]
Unlocked(t) == [mu EXCEPT !.writer = NoThread]

(* ---- New ---- *)
InitClient ==
  /\ nodeEtag = ""
  /\ userEtag = ""
  /\ responseBodyHash = ""
  /\ UserList = <<>>
  /\ mu = [writer |-> NoThread, readers |-> {}]
  /\ pc = [t \in Threads |-> "idle"]
  /\ op = [t \in Threads |-> "none"]
  /\ calls = 0
  /\ currentEtag = [t \in Threads |-> ""]
  /\ currentBodyHash = [t \in Threads |-> ""]
  /\ resp = [t \in Threads |-> NoResp]
  /\ ret = [t \in Threads |-> NoRet]
  /\ hashSource = NoResp
  /\ etagSource = NoResp
  /\ nodeBody = NoBody
  /\ out = NoOut
  /\ apiErr = NoAPIError
  /\ report = NoReport
  /\ debug = FALSE

(* no CommonNode is being processed *)
NoCommonPass ==
  /\ cm = NilCommonNode
  /\ node = NewNodeInfo(0, <<>>)
  /\ routeIndex = -1

(* the client of the tests: New with node type vmess *)
InitTestClient ==
  /\ InitClient
  /\ NoCommonPass
  /\ config = TestConfig
  /\ impl = "switch"
  /\ constructed = TRUE
  /\ NodeType = NormalizeNodeType(config.NodeType)
  /\ NodeId = config.NodeID

Init ==
  /\ InitTestClient
  /\ panelBody = "B1"
  /\ panelEtag = "e1"
  /\ panelChanges = 0

(* ---- the panel ---- *)
PanelChange ==
  /\ panelChanges < MaxPanelChanges
  /\ \E b \in Bodies, e \in Etags :
       /\ <<b, e>> # <<panelBody, panelEtag>>
       /\ panelBody' = b
       /\ panelEtag' = e
  /\ panelChanges' = panelChanges + 1
  /\ UNCHANGED <<cache, mu, pc, op, calls, locals, sources, parse, aux, ops>>

TransportError == [err |-> TRUE, status |-> 0, body |-> "", etag |-> ""]
NotModified == [err |-> FALSE, status |-> StatusNotModified, body |-> "", etag |-> ""]
OKResponse(b, e) == [err |-> FALSE, status |-> StatusOK, body |-> b, etag |-> e]
ErrResponses == {[err |-> FALSE, status |-> s, body |-> ErrBody, etag |-> ""] : s \in ErrStatuses}
NodeResponses ==
  {TransportError, NotModified, OKResponse(panelBody, panelEtag)} \cup ErrResponses
UserResponses ==
  {TransportError, NotModified} \cup ErrResponses
    \cup {OKResponse(b, UserEtagOf(b)) : b \in UserBodies}

(* ---- GetNodeInfo ---- *)
(* A call that sends no If-None-Match value.                               *)
StartNodeNoEtag(t) ==
  /\ pc[t] \in {"idle", "done"}
  /\ calls < MaxCalls
  /\ calls' = calls + 1
  /\ CanRLock
  /\ mu' = RLocked(t)
  /\ op' = [op EXCEPT ![t] = "node"]
  /\ pc' = [pc EXCEPT ![t] = "n_readHash"]
  /\ currentEtag' = [currentEtag EXCEPT ![t] = ""]
  /\ currentBodyHash' = [currentBodyHash EXCEPT ![t] = ""]
  /\ resp' = [resp EXCEPT ![t] = NoResp]
  /\ ret' = [ret EXCEPT ![t] = NoRet]
  /\ UNCHANGED <<cache, panel, sources, parse, aux, ops>>

(* a caller enters GetNodeInfo: c.mu.RLock(); currentEtag := c.nodeEtag *)
StartNode(t) ==
  /\ pc[t] \in {"idle", "done"}
  /\ calls < MaxCalls
  /\ calls' = calls + 1
  /\ CanRLock
  /\ mu' = RLocked(t)
  /\ op' = [op EXCEPT ![t] = "node"]
  /\ pc' = [pc EXCEPT ![t] = "n_readHash"]
  /\ currentEtag' = [currentEtag EXCEPT ![t] = nodeEtag]
  /\ currentBodyHash' = [currentBodyHash EXCEPT ![t] = ""]
  /\ resp' = [resp EXCEPT ![t] = NoResp]
  /\ ret' = [ret EXCEPT ![t] = NoRet]
  /\ UNCHANGED <<cache, panel, sources, parse, aux, ops>>

(* currentBodyHash := c.responseBodyHash; c.mu.RUnlock() *)
NodeReadHash(t) ==
  /\ pc[t] = "n_readHash"
  /\ currentBodyHash' = [currentBodyHash EXCEPT ![t] = responseBodyHash]
  /\ mu' = RUnlocked(t)
  /\ pc' = [pc EXCEPT ![t] = "n_request"]
  /\ UNCHANGED <<cache, op, calls, currentEtag, resp, ret, panel, sources, parse, aux, ops>>

(* The outcome without the body-hash comparison.                           *)
NodeOutcomeNoHashCompare(r, curHash) ==
  IF r.err THEN "error"
  ELSE IF r.status = StatusNotModified THEN "unchanged"
  ELSE "commit"

(* The outcome without the 304 short cut.                                  *)
NodeOutcomeNo304(r, curHash) ==
  IF r.err THEN "error"
  ELSE IF curHash = Hash(r.body) THEN "unchanged"
  ELSE "commit"

(* The outcome when the transport error is only looked at by the          *)
(* checkResponse call after the commit.                                    *)
NodeOutcomeErrLate(r, curHash) ==
  IF ~r.err /\ r.status = StatusNotModified THEN "unchanged"
  ELSE IF curHash = Hash(r.body) THEN "unchanged"
  ELSE "commit"

(* The outcome when a body that does not decode is rejected before the    *)
(* commit.                                                                 *)
NodeOutcomeDecodeFirst(r, curHash) ==
  IF r.err THEN "error"
  ELSE IF r.status = StatusNotModified THEN "unchanged"
  ELSE IF curHash = Hash(r.body) THEN "unchanged"
  ELSE IF ~Decodable(r.body) THEN "error"
  ELSE "commit"

(* client.go 146-158: what the call does with the transport's answer       *)
(* before it touches the cache.                                            *)
NodeOutcome(r, curHash) ==
  IF r.err THEN "error"
  ELSE IF r.status = StatusNotModified THEN "unchanged"
  ELSE IF curHash = Hash(r.body) THEN "unchanged"
  ELSE "commit"

NodeReceive(t, r) ==
  /\ pc[t] = "n_request"
  /\ resp' = [resp EXCEPT ![t] = r]
  /\ LET o == NodeOutcome(r, currentBodyHash[t]) IN
       /\ pc' = [pc EXCEPT ![t] = IF o = "commit" THEN "n_lock" ELSE "done"]
       /\ ret' = [ret EXCEPT ![t] =
                    IF o = "error" THEN [NoRet EXCEPT !.err = "request failed"] ELSE NoRet]
  /\ UNCHANGED <<cache, mu, op, calls, currentEtag, currentBodyHash, panel, sources, parse, aux, ops>>

NodeRequest(t) == \E r \in NodeResponses : NodeReceive(t, r)

(* A split commit: the hash is written in a critical section of its own   *)
(* and the lock is released before the ETag is written.                    *)
NodeLockSplit(t) ==
  /\ pc[t] = "n_lock"
  /\ CanLock
  /\ responseBodyHash' = Hash(resp[t].body)
  /\ hashSource' = resp[t]
  /\ pc' = [pc EXCEPT ![t] = "n_writeEtag"]
  /\ UNCHANGED <<nodeEtag, userEtag, UserList, mu, op, calls, locals, panel, etagSource, parse, aux, ops>>

(* c.mu.Lock(); c.responseBodyHash = newBodyHash *)
NodeLock(t) ==
  /\ pc[t] = "n_lock"
  /\ CanLock
  /\ mu' = Locked(t)
  /\ responseBodyHash' = Hash(resp[t].body)
  /\ hashSource' = resp[t]
  /\ pc' = [pc EXCEPT ![t] = "n_writeEtag"]
  /\ UNCHANGED <<nodeEtag, userEtag, UserList, op, calls, locals, panel, etagSource, parse, aux, ops>>

(* Client.checkResponse: the error it returns, "nil" for none.              *)
checkResponse(r) ==
  IF r.err THEN "request failed"
  ELSE IF r.status >= 400 THEN "status"
  ELSE "nil"

(* client.go 166-305: the status check and the decode after the commit.    *)
AfterCommit(r) ==
  IF checkResponse(r) # "nil" THEN [NoRet EXCEPT !.err = checkResponse(r)]
  ELSE IF ~Decodable(r.body) THEN [NoRet EXCEPT !.err = "decode"]
  ELSE [NoRet EXCEPT !.node = "NodeInfo"]

(* A commit that stores the If-None-Match value it sent instead of the    *)
(* response's ETag header.                                                 *)
NodeWriteEtagStale(t) ==
  /\ pc[t] = "n_writeEtag"
  /\ nodeEtag' = currentEtag[t]
  /\ etagSource' = resp[t]
  /\ mu' = Unlocked(t)
  /\ ret' = [ret EXCEPT ![t] = AfterCommit(resp[t])]
  /\ pc' = [pc EXCEPT ![t] = "done"]
  /\ UNCHANGED <<userEtag, responseBodyHash, UserList, op, calls,
                 currentEtag, currentBodyHash, resp, panel, hashSource, parse, aux, ops>>

(* A commit that returns without releasing the write lock.                *)
NodeWriteEtagNoUnlock(t) ==
  /\ pc[t] = "n_writeEtag"
  /\ nodeEtag' = resp[t].etag
  /\ etagSource' = resp[t]
  /\ ret' = [ret EXCEPT ![t] = AfterCommit(resp[t])]
  /\ pc' = [pc EXCEPT ![t] = "done"]
  /\ UNCHANGED <<mu, userEtag, responseBodyHash, UserList, op, calls,
                 currentEtag, currentBodyHash, resp, panel, hashSource, parse, aux, ops>>

(* c.nodeEtag = r.Header().Get("ETag"); c.mu.Unlock(); then the rest of    *)
(* the call, which touches no shared state.                                *)
NodeWriteEtag(t) ==
  /\ pc[t] = "n_writeEtag"
  /\ nodeEtag' = resp[t].etag
  /\ etagSource' = resp[t]
  /\ mu' = Unlocked(t)
  /\ ret' = [ret EXCEPT ![t] = AfterCommit(resp[t])]
  /\ pc' = [pc EXCEPT ![t] = "done"]
  /\ UNCHANGED <<userEtag, responseBodyHash, UserList, op, calls,
                 currentEtag, currentBodyHash, resp, panel, hashSource, parse, aux, ops>>

GetNodeInfo(t) ==
  \/ StartNode(t)
  \/ NodeReadHash(t)
  \/ NodeRequest(t)
  \/ NodeLock(t)
  \/ NodeWriteEtag(t)

(* ---- GetUserList ---- *)
(* A GetUserList that sends the node endpoint's ETag.                      *)
StartUserNodeEtag(t) ==
  /\ pc[t] \in {"idle", "done"}
  /\ calls < MaxCalls
  /\ calls' = calls + 1
  /\ CanRLock
  /\ op' = [op EXCEPT ![t] = "user"]
  /\ pc' = [pc EXCEPT ![t] = "u_request"]
  /\ currentEtag' = [currentEtag EXCEPT ![t] = nodeEtag]
  /\ currentBodyHash' = [currentBodyHash EXCEPT ![t] = ""]
  /\ resp' = [resp EXCEPT ![t] = NoResp]
  /\ ret' = [ret EXCEPT ![t] = NoRet]
  /\ UNCHANGED <<cache, mu, panel, sources, parse, aux, ops>>

(* a caller enters GetUserList:                                            *)
(* c.mu.RLock(); currentEtag := c.userEtag; c.mu.RUnlock()                 *)
StartUser(t) ==
  /\ pc[t] \in {"idle", "done"}
  /\ calls < MaxCalls
  /\ calls' = calls + 1
  /\ CanRLock
  /\ op' = [op EXCEPT ![t] = "user"]
  /\ pc' = [pc EXCEPT ![t] = "u_request"]
  /\ currentEtag' = [currentEtag EXCEPT ![t] = userEtag]
  /\ currentBodyHash' = [currentBodyHash EXCEPT ![t] = ""]
  /\ resp' = [resp EXCEPT ![t] = NoResp]
  /\ ret' = [ret EXCEPT ![t] = NoRet]
  /\ UNCHANGED <<cache, mu, panel, sources, parse, aux, ops>>

(* The outcome when the list is stored without looking at the decode      *)
(* error.                                                                  *)
UserOutcomeNoDecodeCheck(r) ==
  IF r.err THEN "request failed"
  ELSE IF r.status = StatusNotModified THEN "cached"
  ELSE IF checkResponse(r) # "nil" THEN "status"
  ELSE "commit"

(* client.go 320-340: what the call does with the transport's answer.      *)
UserOutcome(r) ==
  IF r.err THEN "request failed"
  ELSE IF r.status = StatusNotModified THEN "cached"
  ELSE IF checkResponse(r) # "nil" THEN "status"
  ELSE IF ~UsersDecodable(r.body) THEN "decode"
  ELSE "commit"

UserReceive(t, r) ==
  /\ pc[t] = "u_request"
  /\ resp' = [resp EXCEPT ![t] = r]
  /\ LET o == UserOutcome(r) IN
       /\ pc' = [pc EXCEPT ![t] = IF o = "commit" THEN "u_lock"
                                  ELSE IF o = "cached" THEN "u_read304" ELSE "done"]
       /\ ret' = [ret EXCEPT ![t] =
                    IF o \in {"commit", "cached"} THEN NoRet ELSE [NoRet EXCEPT !.err = o]]
  /\ UNCHANGED <<cache, mu, op, calls, currentEtag, currentBodyHash, panel, sources, parse, aux, ops>>

UserRequest(t) == \E r \in UserResponses : UserReceive(t, r)

(* A 304 branch that returns an empty result instead of the cached list.  *)
User304ReturnEmpty(t) ==
  /\ pc[t] = "u_read304"
  /\ CanRLock
  /\ ret' = [ret EXCEPT ![t] = NoRet]
  /\ pc' = [pc EXCEPT ![t] = "done"]
  /\ UNCHANGED <<cache, mu, op, calls, currentEtag, currentBodyHash, resp, panel, sources, parse, aux, ops>>

(* status 304: c.mu.RLock(); defer c.mu.RUnlock(); return c.UserList.Users *)
User304Return(t) ==
  /\ pc[t] = "u_read304"
  /\ CanRLock
  /\ ret' = [ret EXCEPT ![t] = [NoRet EXCEPT !.users = UserList]]
  /\ pc' = [pc EXCEPT ![t] = "done"]
  /\ UNCHANGED <<cache, mu, op, calls, currentEtag, currentBodyHash, resp, panel, sources, parse, aux, ops>>

(* c.mu.Lock(); c.userEtag = r.Header().Get("ETag") *)
UserLock(t) ==
  /\ pc[t] = "u_lock"
  /\ CanLock
  /\ mu' = Locked(t)
  /\ userEtag' = resp[t].etag
  /\ pc' = [pc EXCEPT ![t] = "u_writeList"]
  /\ UNCHANGED <<nodeEtag, responseBodyHash, UserList, op, calls, locals, panel, sources, parse, aux, ops>>

(* c.UserList = userlist; c.mu.Unlock(); return userlist.Users *)
UserWriteList(t) ==
  /\ pc[t] = "u_writeList"
  /\ UserList' = DecodeUsers(resp[t].body)
  /\ mu' = Unlocked(t)
  /\ ret' = [ret EXCEPT ![t] = [NoRet EXCEPT !.users = DecodeUsers(resp[t].body)]]
  /\ pc' = [pc EXCEPT ![t] = "done"]
  /\ UNCHANGED <<nodeEtag, userEtag, responseBodyHash, op, calls,
                 currentEtag, currentBodyHash, resp, panel, sources, parse, aux, ops>>

GetUserList(t) ==
  \/ StartUser(t)
  \/ UserRequest(t)
  \/ User304Return(t)
  \/ UserLock(t)
  \/ UserWriteList(t)

Next ==
  \/ PanelChange
  \/ \E t \in Threads : GetNodeInfo(t)
  \/ \E t \in Threads : GetUserList(t)

Spec == Init /\ [][Next]_vars

(* N concurrent GetNodeInfo calls against a panel that always answers 200  *)
(* with the same body and the same ETag (TestClient_Concurrency).          *)
NextFixed ==
  \E t \in Threads :
    \/ StartNode(t)
    \/ NodeReadHash(t)
    \/ NodeReceive(t, OKResponse(panelBody, panelEtag))
    \/ NodeLock(t)
    \/ NodeWriteEtag(t)

InitFixed ==
  /\ InitTestClient
  /\ panelBody \in Bodies
  /\ panelEtag \in Etags
  /\ panelChanges = 0

SpecFixed == InitFixed /\ [][NextFixed]_vars

(* Concurrent GetNodeInfo and GetUserList calls against a panel that       *)
(* answers every request 200 with a fixed valid body; every goroutine that *)
(* can take a step eventually takes one.                                   *)
InitLive ==
  /\ InitTestClient
  /\ panelBody \in GoodBodies
  /\ panelEtag \in Etags
  /\ panelChanges = 0

Progress(t) ==
  \/ NodeReadHash(t)
  \/ NodeReceive(t, OKResponse(panelBody, panelEtag))
  \/ NodeLock(t)
  \/ NodeWriteEtag(t)
  \/ UserReceive(t, OKResponse("U1", UserEtagOf("U1")))
  \/ UserLock(t)
  \/ UserWriteList(t)

NextLive ==
  \E t \in Threads :
    \/ StartNode(t)
    \/ StartUser(t)
    \/ Progress(t)

SpecLive == InitLive /\ [][NextLive]_vars /\ \A t \in Threads : WF_vars(Progress(t))

(* ---- New, and the decode of GetNodeInfo ---- *)

(* New without the lower-casing *)
NewNoLower ==
  /\ ~constructed
  /\ constructed' = TRUE
  /\ NodeType' = (IF config.NodeType = V2ray THEN Vmess ELSE config.NodeType)
  /\ NodeId' = config.NodeID
  /\ UNCHANGED <<cache, mu, pc, op, calls, locals, panel, sources, config, impl, nodeBody, out, aux, ops>>

(* New: normalizes the node type and keeps the node id; it has no failing path *)
New ==
  /\ ~constructed
  /\ constructed' = TRUE
  /\ NodeType' = NormalizeNodeType(config.NodeType)
  /\ NodeId' = config.NodeID
  /\ UNCHANGED <<cache, mu, pc, op, calls, locals, panel, sources, config, impl, nodeBody, out, aux, ops>>

(* ---- the rules and the DNS of the routes ---- *)

(* a "block" arm that puts every token into Regexp as it is *)
BlockRulesAllRegexp(rules, matchs) == [rules EXCEPT !.Regexp = @ \o matchs]

(* the "block" arm: each token to Protocol or to Regexp *)
RECURSIVE BlockRules(_, _)
BlockRules(rules, matchs) ==
  IF matchs = <<>> THEN rules
  ELSE LET v == Head(matchs)
           next == IF HasPrefix(v, ProtocolPrefix)
                     THEN [rules EXCEPT !.Protocol = Append(@, TrimPrefix(v, ProtocolPrefix))]
                     ELSE [rules EXCEPT !.Regexp = Append(@, TrimPrefix(v, RegexpPrefix))]
       IN BlockRules(next, Tail(matchs))

(* m[k] = v on a Go map *)
MapPut(m, k, v) == [x \in (DOMAIN m) \cup {k} |-> IF x = k THEN v ELSE m[x]]

(* the "dns" arm keyed by the route's Id *)
DnsRouteById(dns, route, i) ==
  LET matchs == Matchs(route.Match)
  IN IF Len(matchs) > 0 /\ matchs[1] # Main
       THEN [dns EXCEPT !.DNSMap = MapPut(@, Itoa(route.Id),
                                          [address |-> route.ActionValue, domains |-> matchs])]
     ELSE IF Len(matchs) > 1
       THEN [dns EXCEPT !.DNSJson = Join(Tail(matchs))]
     ELSE dns

(* the "dns" arm for the route at position i (from 0) *)
DnsRoute(dns, route, i) ==
  LET matchs == Matchs(route.Match)
  IN IF Len(matchs) > 0 /\ matchs[1] # Main
       THEN [dns EXCEPT !.DNSMap = MapPut(@, Itoa(i),
                                          [address |-> route.ActionValue, domains |-> matchs])]
     ELSE IF Len(matchs) > 1
       THEN [dns EXCEPT !.DNSJson = Join(Tail(matchs))]
     ELSE dns

(* one pass of the loop with every other action handled as "block" *)
ProcessRouteBlockByDefault(info, route, i) ==
  IF route.Action = "dns"
    THEN [info EXCEPT !.RawDNS = DnsRoute(@, route, i)]
    ELSE [info EXCEPT !.Rules = BlockRules(@, Matchs(route.Match))]

(* one pass of the loop over cm.Routes: the route at position i *)
ProcessRoute(info, route, i) ==
  CASE route.Action = "block" -> [info EXCEPT !.Rules = BlockRules(@, Matchs(route.Match))]
    [] route.Action = "dns" -> [info EXCEPT !.RawDNS = DnsRoute(@, route, i)]
    [] OTHER -> info

(* the loop from position i to the end *)
RECURSIVE ProcessRoutes(_, _, _)
ProcessRoutes(info, routes, i) ==
  IF i >= Len(routes) THEN info
  ELSE ProcessRoutes(ProcessRoute(info, routes[i + 1], i), routes, i + 1)

(* the IntervalToTime of a revision *)
ToTime(revision, v) ==
  IF revision = "switch" THEN IntervalToTimeReflect(v) ELSE IntervalToTime(v)

(* after the loop: the intervals if there is a base_config, then Common    *)
(* with its Routes and BaseConfig cleared                                  *)
SetIntervalsKeepRoutes(info, c, revision) ==
  LET push == ToTime(revision, c.BaseConfig.PushInterval)
      pull == ToTime(revision, c.BaseConfig.PullInterval)
  IN IF c.BaseConfig.isNil
       THEN [panic |-> FALSE, node |-> [info EXCEPT !.Common = c]]
     ELSE IF push.panic \/ pull.panic
       THEN [panic |-> TRUE, node |-> info]
     ELSE [panic |-> FALSE,
           node |-> [info EXCEPT !.PushInterval = push.seconds, !.PullInterval = pull.seconds,
                                 !.Common = c]]
SetIntervals(info, c, revision) ==
  LET push == ToTime(revision, c.BaseConfig.PushInterval)
      pull == ToTime(revision, c.BaseConfig.PullInterval)
      common == [c EXCEPT !.Routes = <<>>, !.BaseConfig = NilBaseConfig]
  IN IF c.BaseConfig.isNil
       THEN [panic |-> FALSE, node |-> [info EXCEPT !.Common = common]]
     ELSE IF push.panic \/ pull.panic
       THEN [panic |-> TRUE, node |-> info]
     ELSE [panic |-> FALSE,
           node |-> [info EXCEPT !.PushInterval = push.seconds, !.PullInterval = pull.seconds,
                                 !.Common = common]]

(* the routes, the intervals and Common of a decoded CommonNode *)
ProcessCommonNode(info, c, revision) ==
  IF c.isNil THEN [panic |-> FALSE, node |-> info]
  ELSE SetIntervals(ProcessRoutes(info, c.Routes, 0), c, revision)

(* what GetNodeInfo returns after the rules and the intervals *)
ReturnProcessed(r) == IF r.panic THEN Panicked ELSE Returned(r.node)

(* ---- the decode of the revision with the switch ---- *)

(* the legacy fields of a vmess / vless payload moved to the canonical ones *)
MigrateLegacy(payload) ==
  LET p1 == IF payload.NetworkSettingsBack # ""
              THEN [payload EXCEPT !.NetworkSettings = payload.NetworkSettingsBack,
                                   !.NetworkSettingsBack = ""]
              ELSE payload
  IN IF p1.TlsSettingsBack # "nil"
       THEN [p1 EXCEPT !.TlsSettings = p1.TlsSettingsBack, !.TlsSettingsBack = "nil"]
       ELSE p1

(* an arm that returns the NodeInfo although the decode failed *)
SwitchArmSwallow(info, b, field, payload, security) ==
  IF b.ok
    THEN [node |-> [info EXCEPT ![field] = payload, !.Security = security],
          cm |-> CommonNode(b), err |-> "nil", cause |-> "nil"]
    ELSE [node |-> info, cm |-> NilCommonNode, err |-> "nil", cause |-> "nil"]

(* one arm of the switch: parseNodeWithCommon into the field, then the     *)
(* security mode if the decode succeeded                                   *)
SwitchArm(info, b, field, payload, security) ==
  IF b.ok
    THEN [node |-> [info EXCEPT ![field] = payload, !.Security = security],
          cm |-> CommonNode(b), err |-> "nil", cause |-> "nil"]
    ELSE [node |-> info, cm |-> NilCommonNode, err |-> "decode", cause |-> b.fault]

(* the inline switch on c.NodeType; it has no default arm *)
DecodeSwitch(id, type, b) ==
  LET info == NewNodeInfo(id, type)
      r == CASE type = Vmess ->
                  SwitchArm(info, b, "VMess", MigrateLegacy(VMessNode(b)), VMessNode(b).Tls)
             [] type = Vless ->
                  SwitchArm(info, b, "Vless", MigrateLegacy(VlessNode(b)), VlessNode(b).Tls)
             [] type = Shadowsocks -> SwitchArm(info, b, "Shadowsocks", ShadowsocksNode(b), None)
             [] type = Trojan -> SwitchArm(info, b, "Trojan", TrojanNode(b), Tls)
             [] type = Tuic -> SwitchArm(info, b, "Tuic", TuicNode(b), Tls)
             [] type = AnyTls -> SwitchArm(info, b, "AnyTls", AnyTlsNode(b), Tls)
             [] type = Hysteria -> SwitchArm(info, b, "Hysteria", HysteriaNode(b), Tls)
             [] type = Hysteria2 -> SwitchArm(info, b, "Hysteria2", Hysteria2Node(b), Tls)
             [] OTHER -> [node |-> info, cm |-> NilCommonNode, err |-> "nil", cause |-> "nil"]
  IN IF r.err # "nil" THEN DecodeError(type, r.cause)
     ELSE ReturnProcessed(ProcessCommonNode(r.node, r.cm, "switch"))

(* ---- the decode of the revision with the handlers ---- *)
VMessHandler(info, b) ==
  IF ~b.ok THEN [node |-> info, cm |-> NilCommonNode, err |-> "decode", cause |-> b.fault]
  ELSE [node |-> [info EXCEPT !.VMess = VMessNodeCanonical(b), !.Security = VMessNodeCanonical(b).Tls],
        cm |-> CommonNode(b), err |-> "nil", cause |-> "nil"]

VlessHandlerWrongField(info, b) ==
  IF ~b.ok THEN [node |-> info, cm |-> NilCommonNode, err |-> "decode", cause |-> b.fault]
  ELSE [node |-> [info EXCEPT !.VMess = VlessNodeCanonical(b), !.Security = VlessNodeCanonical(b).Tls],
        cm |-> CommonNode(b), err |-> "nil", cause |-> "nil"]

VlessHandler(info, b) ==
  IF ~b.ok THEN [node |-> info, cm |-> NilCommonNode, err |-> "decode", cause |-> b.fault]
  ELSE [node |-> [info EXCEPT !.Vless = VlessNodeCanonical(b), !.Security = VlessNodeCanonical(b).Tls],
        cm |-> CommonNode(b), err |-> "nil", cause |-> "nil"]

ShadowsocksHandler(info, b) ==
  IF ~b.ok THEN [node |-> info, cm |-> NilCommonNode, err |-> "decode", cause |-> b.fault]
  ELSE [node |-> [info EXCEPT !.Shadowsocks = ShadowsocksNode(b), !.Security = None],
        cm |-> CommonNode(b), err |-> "nil", cause |-> "nil"]

TrojanHandlerFromBody(info, b) ==
  IF ~b.ok THEN [node |-> info, cm |-> NilCommonNode, err |-> "decode", cause |-> b.fault]
  ELSE [node |-> [info EXCEPT !.Trojan = TrojanNode(b), !.Security = b.tls],
        cm |-> CommonNode(b), err |-> "nil", cause |-> "nil"]

TrojanHandler(info, b) ==
  IF ~b.ok THEN [node |-> info, cm |-> NilCommonNode, err |-> "decode", cause |-> b.fault]
  ELSE [node |-> [info EXCEPT !.Trojan = TrojanNode(b), !.Security = Tls],
        cm |-> CommonNode(b), err |-> "nil", cause |-> "nil"]

TuicHandler(info, b) ==
  IF ~b.ok THEN [node |-> info, cm |-> NilCommonNode, err |-> "decode", cause |-> b.fault]
  ELSE [node |-> [info EXCEPT !.Tuic = TuicNode(b), !.Security = Tls],
        cm |-> CommonNode(b), err |-> "nil", cause |-> "nil"]

HysteriaHandler(info, b) ==
  IF ~b.ok THEN [node |-> info, cm |-> NilCommonNode, err |-> "decode", cause |-> b.fault]
  ELSE [node |-> [info EXCEPT !.Hysteria = HysteriaNode(b), !.Security = Tls],
        cm |-> CommonNode(b), err |-> "nil", cause |-> "nil"]

Hysteria2Handler(info, b) ==
  IF ~b.ok THEN [node |-> info, cm |-> NilCommonNode, err |-> "decode", cause |-> b.fault]
  ELSE [node |-> [info EXCEPT !.Hysteria2 = Hysteria2Node(b), !.Security = Tls],
        cm |-> CommonNode(b), err |-> "nil", cause |-> "nil"]

AnyTlsHandler(info, b) ==
  IF ~b.ok THEN [node |-> info, cm |-> NilCommonNode, err |-> "decode", cause |-> b.fault]
  ELSE [node |-> [info EXCEPT !.AnyTls = AnyTlsNode(b), !.Security = Tls],
        cm |-> CommonNode(b), err |-> "nil", cause |-> "nil"]

(* Client.handlers: the node types that have a handler, and the lookup *)
HandlerTypes == {Shadowsocks, Vmess, Vless, Trojan, Tuic, AnyTls, Hysteria, Hysteria2}

ParseConfig(type, info, b) ==
  CASE type = Shadowsocks -> ShadowsocksHandler(info, b)
    [] type = Vmess -> VMessHandler(info, b)
    [] type = Vless -> VlessHandler(info, b)
    [] type = Trojan -> TrojanHandler(info, b)
    [] type = Tuic -> TuicHandler(info, b)
    [] type = AnyTls -> AnyTlsHandler(info, b)
    [] type = Hysteria -> HysteriaHandler(info, b)
    [] type = Hysteria2 -> Hysteria2Handler(info, b)

(* the lookup in c.handlers, with its "unsupported node type" branch *)
DecodeHandlers(id, type, b) ==
  IF type \in HandlerTypes
    THEN LET r == ParseConfig(type, NewNodeInfo(id, type), b)
         IN IF r.err # "nil" THEN DecodeError(type, r.cause)
            ELSE ReturnProcessed(ProcessCommonNode(r.node, r.cm, "handlers"))
    ELSE ReturnedError("unsupported node type")

(* GetNodeInfo past the commit, on a 2xx body b: the decode and the return *)
DecodeBySwitch(b) ==
  /\ constructed
  /\ impl = "switch"
  /\ nodeBody = NoBody
  /\ nodeBody' = b
  /\ out' = DecodeSwitch(NodeId, NodeType, b)
  /\ UNCHANGED <<cache, mu, pc, op, calls, locals, panel, sources,
                 config, impl, constructed, NodeType, NodeId, aux, ops>>

DecodeByHandlers(b) ==
  /\ constructed
  /\ impl = "handlers"
  /\ nodeBody = NoBody
  /\ nodeBody' = b
  /\ out' = DecodeHandlers(NodeId, NodeType, b)
  /\ UNCHANGED <<cache, mu, pc, op, calls, locals, panel, sources,
                 config, impl, constructed, NodeType, NodeId, aux, ops>>

(* a sequential caller: New on any config, then one GetNodeInfo that gets  *)
(* a 2xx body it has not seen                                              *)
InitParse ==
  /\ InitClient
  /\ NoCommonPass
  /\ panelBody = "B1"
  /\ panelEtag = "e1"
  /\ panelChanges = 0
  /\ config \in Configs
  /\ impl \in Impls
  /\ constructed = FALSE
  /\ NodeType = <<>>
  /\ NodeId = 0

NextParse ==
  \/ New
  \/ \E b \in NodeBodies : DecodeBySwitch(b)
  \/ \E b \in NodeBodies : DecodeByHandlers(b)

SpecParse == InitParse /\ [][NextParse]_vars

(* ---- ReportUserTraffic, ReportNodeOnlineUsers, Debug ---- *)
(* a map that adds up the records of a user id *)
RECURSIVE TrafficDataSummed(_, _)
TrafficDataSummed(userTraffic, n) ==
  IF n = 0 THEN EmptyMap
  ELSE LET data == TrafficDataSummed(userTraffic, n - 1)
           t == userTraffic[n]
       IN IF t.UID \in DOMAIN data
            THEN MapPut(data, t.UID, <<data[t.UID][1] + t.Upload, data[t.UID][2] + t.Download>>)
            ELSE MapPut(data, t.UID, <<t.Upload, t.Download>>)

(* data[userTraffic[i].UID] = []int64{Upload, Download} for the first n    *)
(* records, in order: a later record of a user id replaces the earlier one *)
RECURSIVE TrafficData(_, _)
TrafficData(userTraffic, n) ==
  IF n = 0 THEN EmptyMap
  ELSE MapPut(TrafficData(userTraffic, n - 1), userTraffic[n].UID,
              <<userTraffic[n].Upload, userTraffic[n].Download>>)

(* what the panel answers to a POST: no answer at all, or a status *)
PostStatuses == {200, 399, 400, 500}
PostResponses ==
  {TransportError} \cup {[err |-> FALSE, status |-> st, body |-> "", etag |-> ""] : st \in PostStatuses}

(* ReportUserTraffic: builds the map, posts it to apiPushPath, returns     *)
(* checkResponse of the answer                                             *)
ReportUserTraffic(userTraffic, r) ==
  /\ constructed
  /\ report' = [path |-> "push", input |-> userTraffic,
                body |-> TrafficData(userTraffic, Len(userTraffic)),
                resp |-> r, err |-> checkResponse(r)]
  /\ UNCHANGED <<cache, mu, pc, op, calls, locals, panel, sources, parse, aux, debug>>

(* ReportNodeOnlineUsers: posts data as it is to apiAlivePath *)
ReportNodeOnlineUsers(data, r) ==
  /\ constructed
  /\ report' = [path |-> "alive", input |-> <<>>, body |-> data, resp |-> r, err |-> checkResponse(r)]
  /\ UNCHANGED <<cache, mu, pc, op, calls, locals, panel, sources, parse, aux, debug>>

(* Debug: c.client.SetDebug(enable) *)
Debug(enable) ==
  /\ constructed
  /\ debug' = enable
  /\ UNCHANGED <<cache, mu, pc, op, calls, locals, panel, sources, parse, aux, report>>

(* a caller that makes a client and then uses its operations: one          *)
(* GetNodeInfo or GetUserList against the panel or one decoded body, and   *)
(* one report at any point of it                                           *)
OpsNodeTypes == {Vmess, V2ray, [Trojan EXCEPT ![1] = ToUpperChar(@)], UnknownType}
OpsConfigs == [NodeType : OpsNodeTypes, NodeID : {TestNodeID}]

InitOps ==
  /\ InitClient
  /\ NoCommonPass
  /\ panelBody = "B1"
  /\ panelEtag = "e1"
  /\ panelChanges = 0
  /\ config \in OpsConfigs
  /\ impl \in Impls
  /\ constructed = FALSE
  /\ NodeType = <<>>
  /\ NodeId = 0

NextOps ==
  \/ New
  \/ calls = 0 /\ \E b \in NodeBodies : DecodeBySwitch(b)
  \/ calls = 0 /\ \E b \in NodeBodies : DecodeByHandlers(b)
  \/ \E t \in Threads : constructed /\ nodeBody = NoBody /\ calls = 0 /\ StartNode(t)
  \/ \E t \in Threads : NodeReadHash(t)
  \/ \E t \in Threads : NodeRequest(t)
  \/ \E t \in Threads : NodeLock(t)
  \/ \E t \in Threads : NodeWriteEtag(t)
  \/ \E t \in Threads : constructed /\ nodeBody = NoBody /\ calls = 0 /\ StartUser(t)
  \/ \E t \in Threads : UserRequest(t)
  \/ \E t \in Threads : User304Return(t)
  \/ \E t \in Threads : UserLock(t)
  \/ \E t \in Threads : UserWriteList(t)
  \/ report = NoReport /\ \E u \in TrafficLists(MaxTraffic), r \in PostResponses : ReportUserTraffic(u, r)
  \/ report = NoReport /\ \E data \in AliveData, r \in PostResponses : ReportNodeOnlineUsers(data, r)
  \/ report = NoReport /\ nodeBody = NoBody /\ \E enable \in BOOLEAN : Debug(enable)

SpecOps == InitOps /\ [][NextOps]_vars

(* ---- building an APIError from a status code ---- *)
NewAPIErrorFromStatusCode(statusCode) ==
  /\ apiErr = NoAPIError
  /\ apiErr' = NewAPIError(statusCode, getErrorTypeFromStatusCode(statusCode))
  /\ UNCHANGED <<cache, mu, pc, op, calls, locals, panel, sources, parse, cm, node, routeIndex, ops>>

InitAPIError == InitTestClient /\ panelBody = "B1" /\ panelEtag = "e1" /\ panelChanges = 0

NextAPIError == \E statusCode \in StatusCodes : NewAPIErrorFromStatusCode(statusCode)

SpecAPIError == InitAPIError /\ [][NextAPIError]_vars

(* ---- the pass over the routes, one route at a time ---- *)

(* the body of the loop for the route at position routeIndex *)
ProcessRouteStep ==
  /\ routeIndex >= 0
  /\ routeIndex < Len(cm.Routes)
  /\ node' = ProcessRoute(node, cm.Routes[routeIndex + 1], routeIndex)
  /\ routeIndex' = routeIndex + 1
  /\ UNCHANGED <<cache, mu, pc, op, calls, locals, panel, sources, parse, apiErr, cm, ops>>

(* after the loop: the intervals, Common, and the CommonNode cleared *)
FinishCommonNode ==
  /\ routeIndex >= 0
  /\ routeIndex = Len(cm.Routes)
  /\ node' = SetIntervals(node, cm, impl).node
  /\ cm' = [cm EXCEPT !.Routes = <<>>, !.BaseConfig = NilBaseConfig]
  /\ routeIndex' = -1
  /\ UNCHANGED <<cache, mu, pc, op, calls, locals, panel, sources, parse, apiErr, ops>>

(* a NodeInfo just decoded, with any list of at most MaxRoutes routes to go through *)
InitRoutes ==
  /\ InitClient
  /\ config = TestConfig
  /\ impl \in Impls
  /\ constructed = TRUE
  /\ NodeType = NormalizeNodeType(config.NodeType)
  /\ NodeId = config.NodeID
  /\ panelBody = "B1"
  /\ panelEtag = "e1"
  /\ panelChanges = 0
  /\ \E rs \in RouteLists(MaxRoutes) :
       LET b == [DefaultBody EXCEPT !.routes = rs]
           r == SwitchArm(NewNodeInfo(NodeId, NodeType), b, "VMess",
                          MigrateLegacy(VMessNode(b)), VMessNode(b).Tls)
       IN /\ cm = r.cm
          /\ node = r.node
          /\ routeIndex = 0

NextRoutes ==
  \/ ProcessRouteStep
  \/ FinishCommonNode

SpecRoutes == InitRoutes /\ [][NextRoutes]_vars

TypeOK ==
  /\ nodeEtag \in Etags \cup {""}
  /\ userEtag \in UserEtags \cup {""}
  /\ mu.writer \in Threads \cup {NoThread}
  /\ mu.readers \subseteq Threads
  /\ calls \in 0..MaxCalls
  /\ config \in Configs
  /\ impl \in Impls
  /\ constructed \in BOOLEAN
  /\ nodeBody \in NodeBodies \cup {NoBody}
  /\ out.isNil \in BOOLEAN
  /\ debug \in BOOLEAN
  /\ report.path \in {"none", "push", "alive"}
  /\ report.err \in {"none", "nil", "request failed", "status"}

(* ---- helpers of the properties ---- *)
WriteHeld == mu.writer # NoThread
StoredPair == <<responseBodyHash, nodeEtag>>
PanelPair == <<Hash(panelBody), panelEtag>>
\* the call of t has executed the commit step
Committed(t) ==
  /\ op[t] = "node"
  /\ pc[t] = "done"
  /\ NodeOutcome(resp[t], currentBodyHash[t]) = "commit"
\* the call of t has read the stored state, decided "changed" and not yet finished its write
InCommitWindow(t) == op[t] = "node" /\ pc[t] \in {"n_lock", "n_writeEtag"}

(* C1: between a GetNodeInfo call's read of the stored hash/ETag and that  *)
(* call's own write of them, no other call writes the stored hash or ETag  *)
(* (decide-then-commit is one critical section).                           *)
C1_OneCriticalSection ==
  [][\A t \in Threads :
       (InCommitWindow(t) /\ pc'[t] = pc[t])
         => (responseBodyHash' = responseBodyHash /\ nodeEtag' = nodeEtag)]_vars

(* C2: whenever the client lock is not write-held, the stored hash and the *)
(* stored ETag were taken from one and the same panel response (or both    *)
(* are still empty), and a caller in the middle of its locked read sees    *)
(* no writer and the ETag it read is still the stored one.                 *)
C2_PairFromOneResponse ==
  /\ ~WriteHeld =>
       \/ StoredPair = <<"", "">> /\ hashSource = NoResp /\ etagSource = NoResp
       \/ /\ hashSource = etagSource
          /\ hashSource # NoResp
          /\ StoredPair = <<Hash(hashSource.body), hashSource.etag>>
  /\ \A t \in Threads :
       pc[t] = "n_readHash" => (~WriteHeld /\ currentEtag[t] = nodeEtag)

(* C2 witness: two calls have committed different responses and the lock   *)
(* is free.                                                                *)
C2_Witness ==
  /\ ~WriteHeld
  /\ \E t, u \in Threads :
       /\ t # u
       /\ Committed(t) /\ Committed(u)
       /\ resp[t].body # resp[u].body
       /\ resp[t].etag # resp[u].etag
       /\ resp[t].etag # ""
       /\ resp[u].etag # ""

(* C3: with a panel that always answers 200 with the same body and ETag,   *)
(* the observable (hash, ETag) pair takes only the values empty and the    *)
(* panel's pair, and never goes back to empty: it changes at most once.    *)
C3_AtMostOneTransition ==
  /\ [](~WriteHeld => StoredPair \in {<<"", "">>, PanelPair})
  /\ [][responseBodyHash # "" => responseBodyHash' # ""]_vars

(* C3 witness: two concurrent calls have both run the commit.              *)
C3_Witness ==
  /\ ~WriteHeld
  /\ StoredPair = PanelPair
  /\ \E t, u \in Threads : t # u /\ Committed(t) /\ Committed(u)

(* C4: one genuine change of the panel's body causes exactly one execution *)
(* of the commit step, also when several calls are in flight: with an      *)
(* unchanging panel at most one call commits.                              *)
C4_OneCommitPerChange == Cardinality({t \in Threads : Committed(t)}) <= 1

\* the response with which the call of t ended is a transport failure
Failed(t) == pc[t] = "done" /\ resp[t].err
\* the call of t got a response (the transport reported no error)
Answered(t) == pc[t] = "done" /\ ~resp[t].err
Unchanged(t) == ret[t].node = "nil" /\ ret[t].err = "nil"

(* C5: a GetNodeInfo call that starts when the stored hash is that of body *)
(* B, with the stored hash still that one when it ends, returns Unchanged  *)
(* (nil, nil) both on status 304 and on status 200 with body B.            *)
C5_Idempotent ==
  \A t \in Threads :
    ( /\ op[t] = "node"
      /\ Answered(t)
      /\ currentBodyHash[t] # ""
      /\ currentBodyHash[t] = responseBodyHash
      /\ \/ resp[t].status = StatusNotModified
         \/ resp[t].status = StatusOK /\ Hash(resp[t].body) = responseBodyHash )
    => Unchanged(t)

(* C5 witness: a call committed body B and a later call that got 200 with  *)
(* the same body has returned.                                             *)
C5_Witness ==
  \E t, u \in Threads :
    /\ Committed(u)
    /\ op[t] = "node" /\ Answered(t)
    /\ resp[t].status = StatusOK
    /\ resp[t].body = resp[u].body
    /\ currentBodyHash[t] = Hash(resp[t].body)
    /\ responseBodyHash = Hash(resp[t].body)

(* C6: a GetNodeInfo call answered 304 ends right there with Unchanged,    *)
(* and no step of the call writes nodeEtag, responseBodyHash, userEtag or  *)
(* the cached user list.                                                   *)
C6_NotModifiedFrame ==
  /\ [](\A t \in Threads :
         (op[t] = "node" /\ ~resp[t].err /\ resp[t].status = StatusNotModified)
           => (pc[t] = "done" /\ Unchanged(t)))
  /\ [][\A t \in Threads :
         ( /\ pc'[t] # pc[t]
           /\ op'[t] = "node"
           /\ \/ pc'[t] \in {"n_readHash", "n_request"}
              \/ ~resp'[t].err /\ resp'[t].status = StatusNotModified )
         => cache' = cache]_vars

(* C6 witness: a call answered 304 has returned while the cache holds a    *)
(* committed hash and ETag.                                                *)
C6_Witness ==
  \E t \in Threads :
    /\ op[t] = "node" /\ Answered(t)
    /\ resp[t].status = StatusNotModified
    /\ responseBodyHash # "" /\ nodeEtag # ""

(* C7: a GetNodeInfo call that ends in a transport failure or gets a       *)
(* status that is neither 2xx nor 304 returns an error, never Unchanged.   *)
C7_ErrorNeverUnchanged ==
  \A t \in Threads :
    ( /\ op[t] = "node" /\ pc[t] = "done"
      /\ \/ resp[t].err
         \/ resp[t].status \notin (200..299) \cup {StatusNotModified} )
    => ret[t].err # "nil"

(* C8: a GetNodeInfo call whose response has status >= 400 leaves nodeEtag *)
(* and responseBodyHash unchanged.                                         *)
C8_ErrorStatusNoWrite ==
  [][\A t \in Threads :
       (pc'[t] # pc[t] /\ op[t] = "node" /\ ~resp[t].err /\ resp[t].status >= 400)
         => (nodeEtag' = nodeEtag /\ responseBodyHash' = responseBodyHash)]_vars

(* C9: when the transport call of GetNodeInfo or GetUserList fails, the    *)
(* call ends right there with an error and no result, and no step of the   *)
(* call writes nodeEtag, userEtag, responseBodyHash or the cached users.   *)
C9_TransportErrorFrame ==
  /\ [](\A t \in Threads :
         resp[t].err => ( /\ pc[t] = "done"
                          /\ ret[t].err # "nil"
                          /\ ret[t].node = "nil"
                          /\ ret[t].users = <<>> ))
  /\ [][\A t \in Threads :
         ( /\ pc'[t] # pc[t]
           /\ \/ pc'[t] \in {"n_readHash", "n_request", "u_request"}
              \/ resp'[t].err )
         => cache' = cache]_vars

(* C9 witness: a GetNodeInfo call and a GetUserList call have both ended   *)
(* in a transport failure.                                                 *)
C9_Witness ==
  \E t, u \in Threads :
    /\ op[t] = "node" /\ Failed(t)
    /\ op[u] = "user" /\ Failed(u)

(* C10: every GetNodeInfo call that receives a 2xx body which does not     *)
(* decode returns an error, the second and later calls that receive the    *)
(* same malformed body included.                                           *)
C10_DecodeFailureIsError ==
  \A t \in Threads :
    ( /\ op[t] = "node" /\ Answered(t)
      /\ resp[t].status \in 200..299
      /\ ~Decodable(resp[t].body) )
    => ret[t].err # "nil"

\* the step is one of the call of t
StepOf(t) == pc'[t] # pc[t]
InFlight(t) == pc[t] \notin {"idle", "done"}

(* C11: the commit precedes the decode: the step that ends a call whose    *)
(* 2xx body differs in hash from the one read at its start and does not    *)
(* decode returns the decode error and leaves that response's hash and     *)
(* ETag stored.                                                            *)
C11_CommitBeforeDecode ==
  [][\A t \in Threads :
       ( /\ StepOf(t) /\ pc'[t] = "done" /\ op'[t] = "node"
         /\ ~resp'[t].err
         /\ resp'[t].status \in 200..299
         /\ Hash(resp'[t].body) # currentBodyHash'[t]
         /\ ~Decodable(resp'[t].body) )
       => ( /\ ret'[t].err = "decode" /\ ret'[t].node = "nil"
            /\ responseBodyHash' = Hash(resp'[t].body)
            /\ nodeEtag' = resp'[t].etag )]_vars

(* C11 witness: a call has returned the decode error and the malformed     *)
(* body's hash and ETag are stored.                                        *)
C11_Witness ==
  \E t \in Threads :
    /\ op[t] = "node" /\ pc[t] = "done" /\ ret[t].err = "decode"
    /\ ~Decodable(resp[t].body)
    /\ StoredPair = <<Hash(resp[t].body), resp[t].etag>>

(* C12: a GetUserList call answered 304 returns the stored user list with  *)
(* a nil error, and no step of it changes userEtag or the stored list.     *)
C12_CachedUsersOn304 ==
  /\ [](\A t \in Threads :
         (op[t] = "user" /\ ~resp[t].err /\ resp[t].status = StatusNotModified)
           => pc[t] \in {"u_read304", "done"})
  /\ [][\A t \in Threads :
         (StepOf(t) /\ op'[t] = "user" /\ ~resp'[t].err /\ resp'[t].status = StatusNotModified)
           => ( /\ cache' = cache
                /\ pc'[t] = "done" => (ret'[t].users = UserList /\ ret'[t].err = "nil") )]_vars

(* C12 witness: a call answered 304 has returned a non-empty cached list.  *)
C12_Witness ==
  \E t \in Threads :
    /\ op[t] = "user" /\ Answered(t)
    /\ resp[t].status = StatusNotModified
    /\ ret[t].users # <<>>
    /\ ret[t].users = UserList

(* C13: GetUserList never changes nodeEtag or responseBodyHash, GetNodeInfo *)
(* never changes userEtag or the cached user list, and the If-None-Match   *)
(* value of a call is an ETag of its own endpoint (or empty).              *)
C13_EndpointsIndependent ==
  /\ [](\A t \in Threads :
         /\ op[t] = "node" => currentEtag[t] \in Etags \cup {""}
         /\ op[t] = "user" => currentEtag[t] \in UserEtags \cup {""})
  /\ [][\A t \in Threads :
         StepOf(t) =>
           /\ op'[t] = "user" => (nodeEtag' = nodeEtag /\ responseBodyHash' = responseBodyHash)
           /\ op'[t] = "node" => (userEtag' = userEtag /\ UserList' = UserList)]_vars

(* C13 witness: a GetUserList request is in flight while the node ETag is  *)
(* set, and it carries the user ETag.                                      *)
C13_Witness ==
  \E t \in Threads :
    /\ op[t] = "user" /\ pc[t] = "u_request"
    /\ nodeEtag # ""
    /\ currentEtag[t] = userEtag

(* C14: userEtag and the cached list are written together and only from a  *)
(* response that passed the status check and decoded: outside the write    *)
(* lock the stored pair is that of one decodable response (or empty), and  *)
(* a call with status >= 400 or an undecodable body ends with an error     *)
(* and writes nothing.                                                     *)
UserRejected(r) ==
  /\ ~r.err
  /\ r.status # StatusNotModified
  /\ r.status >= 400 \/ ~UsersDecodable(r.body)
C14_UserCommit ==
  /\ [](~WriteHeld =>
         <<userEtag, UserList>> \in
           {<<"", <<>>>>} \cup
           {<<UserEtagOf(b), DecodeUsers(b)>> : b \in {x \in UserBodies : UsersDecodable(x)}})
  /\ [](\A t \in Threads :
         (op[t] = "user" /\ resp[t] # NoResp /\ UserRejected(resp[t]))
           => (pc[t] = "done" /\ ret[t].err # "nil" /\ ret[t].users = <<>>))
  /\ [][\A t \in Threads :
         (StepOf(t) /\ op'[t] = "user" /\ resp'[t] # NoResp /\ UserRejected(resp'[t]))
           => cache' = cache]_vars

(* C14 witness: a call got an undecodable 200 body and returned while a    *)
(* list committed earlier is stored.                                       *)
C14_Witness ==
  \E t \in Threads :
    /\ op[t] = "user" /\ Answered(t)
    /\ resp[t].status = StatusOK /\ ~UsersDecodable(resp[t].body)
    /\ userEtag # "" /\ UserList # <<>>

(* C15: against a panel that always answers 200 with a valid body, every   *)
(* call that has started ends, no call returns an error, and once no call  *)
(* is in flight the lock is free.                                          *)
C15_AllCallsEndWithoutError ==
  /\ [](\A t \in Threads : pc[t] = "done" => ret[t].err = "nil")
  /\ []((\A t \in Threads : ~InFlight(t)) => (mu.writer = NoThread /\ mu.readers = {}))
  /\ \A t \in Threads : InFlight(t) ~> pc[t] = "done"

(* C15 witness: a GetNodeInfo call and a GetUserList call that ran         *)
(* concurrently have both ended.                                           *)
C15_Witness ==
  \E t, u \in Threads :
    /\ op[t] = "node" /\ pc[t] = "done" /\ ret[t].node = "NodeInfo"
    /\ op[u] = "user" /\ pc[u] = "done" /\ ret[u].users # <<>>
    /\ calls = MaxCalls

(* C16: a call sends as If-None-Match the ETag stored when it starts: for  *)
(* GetNodeInfo the ETag of the response of the last commit (empty on a     *)
(* fresh client), for GetUserList the stored userEtag; the value stays     *)
(* the call's own until its next call starts.                              *)
IfNoneMatch(t) == currentEtag[t]
C16_IfNoneMatchIsStoredEtag ==
  /\ [](calls = 0 => (nodeEtag = "" /\ userEtag = ""))
  /\ [][\A t \in Threads :
         StepOf(t) =>
           /\ pc'[t] = "n_readHash" => (IfNoneMatch(t)' = nodeEtag /\ IfNoneMatch(t)' = etagSource.etag)
           /\ pc'[t] = "u_request" => IfNoneMatch(t)' = userEtag
           /\ pc'[t] \notin {"n_readHash", "u_request"} => IfNoneMatch(t)' = IfNoneMatch(t)]_vars

(* C16 witness: a GetNodeInfo request is in flight and carries the ETag of *)
(* an earlier commit.                                                      *)
C16_Witness ==
  \E t \in Threads :
    /\ op[t] = "node" /\ pc[t] = "n_request"
    /\ IfNoneMatch(t) # ""
    /\ IfNoneMatch(t) = etagSource.etag

(* the eight supported node types, and the payload field of each *)
SupportedTypes == {Shadowsocks, Trojan, Vmess, Vless, Tuic, Hysteria, Hysteria2, AnyTls}

FieldOf(type) ==
  CASE type = Vmess -> "VMess"
    [] type = Vless -> "Vless"
    [] type = Shadowsocks -> "Shadowsocks"
    [] type = Trojan -> "Trojan"
    [] type = Tuic -> "Tuic"
    [] type = AnyTls -> "AnyTls"
    [] type = Hysteria -> "Hysteria"
    [] type = Hysteria2 -> "Hysteria2"

(* GetNodeInfo has decoded a body and returned a NodeInfo with nil error *)
ReturnedNode == nodeBody # NoBody /\ ~out.isNil /\ out.err = "nil"

(* C17: New stores the configured node type lower-cased, with "v2ray" in   *)
(* any casing stored as "vmess" and every other name, known or not, stored *)
(* as its lower-cased self; New can always be carried out.                 *)
C17_NormalizedNodeType ==
  /\ ~constructed => ENABLED New
  /\ constructed =>
       /\ \A i \in DOMAIN NodeType : ~IsUpper(NodeType[i])
       /\ ToLower(config.NodeType) = V2ray => NodeType = Vmess
       /\ ToLower(config.NodeType) # V2ray =>
            /\ Len(NodeType) = Len(config.NodeType)
            /\ \A i \in DOMAIN NodeType : NodeType[i] = ToLowerChar(config.NodeType[i])

(* C17 witness: New was given "v2ray" spelled with an upper-case letter    *)
(* and the client holds "vmess".                                           *)
C17_Witness ==
  /\ constructed
  /\ config.NodeType # V2ray
  /\ ToLower(config.NodeType) = V2ray
  /\ NodeType = Vmess

(* C18: with a node type outside the eight supported ones, a GetNodeInfo   *)
(* call that decodes a 2xx body returns the "unsupported node type" error  *)
(* and no NodeInfo.                                                        *)
C18_UnsupportedTypeIsError ==
  (nodeBody # NoBody /\ NodeType \notin SupportedTypes) =>
    (out.isNil /\ out.err = "unsupported node type")

(* C19: a NodeInfo returned with nil error for a supported node type has   *)
(* exactly one payload field set, the one of that node type.               *)
C19_ExactlyOnePayload ==
  (ReturnedNode /\ NodeType \in SupportedTypes) =>
    { f \in PayloadFields : out.node[f] # Nil } = { FieldOf(NodeType) }

(* C19 witness: a vless client got its NodeInfo.                           *)
C19_Witness ==
  /\ ReturnedNode
  /\ NodeType = Vless
  /\ out.node.Vless # Nil

(* C20: the Security of a returned NodeInfo is 0 for shadowsocks whatever  *)
(* the body holds, the body's tls integer for vmess and vless, and 1 for   *)
(* trojan, tuic, anytls, hysteria and hysteria2.                           *)
C20_SecurityByType ==
  (ReturnedNode /\ NodeType \in SupportedTypes) =>
    /\ NodeType = Shadowsocks => out.node.Security = 0
    /\ NodeType \in {Vmess, Vless} => out.node.Security = nodeBody.tls
    /\ NodeType \in {Trojan, Tuic, AnyTls, Hysteria, Hysteria2} => out.node.Security = 1

(* C20 witness: a trojan client got its NodeInfo from a body whose tls     *)
(* integer is not 1.                                                       *)
C20_Witness ==
  /\ ReturnedNode
  /\ NodeType = Trojan
  /\ nodeBody.tls # 1
  /\ out.node.Security = 1


C21_LegacyMigration ==
  (ReturnedNode /\ NodeType \in {Vmess, Vless}) =>
    LET payload == out.node[FieldOf(NodeType)]
    IN /\ nodeBody.networkSettings # "" => payload.NetworkSettings = nodeBody.networkSettings
       /\ nodeBody.tlsSettings # "nil" => payload.TlsSettings = nodeBody.tlsSettings
       /\ "NetworkSettingsBack" \in DOMAIN payload => payload.NetworkSettingsBack = ""
       /\ "TlsSettingsBack" \in DOMAIN payload => payload.TlsSettingsBack = "nil"

(* the seconds the interval coercion is to give for a value *)
ExpectedSeconds(v) ==
  CASE v.kind = "int" -> v.n
    [] v.kind = "string" -> Atoi(v.str)
    [] v.kind = "float64" -> v.n \div 10
    [] OTHER -> 0

(* C25: the interval coercion never fails: GetNodeInfo on a decodable body *)
(* with a base_config returns a NodeInfo whose PushInterval and            *)
(* PullInterval are n seconds for an integer or a numeric string n, the    *)
(* truncation of a float, and 0 for a missing value or any other shape; it *)
(* does not panic.                                                         *)
C25_IntervalCoercion ==
  (nodeBody # NoBody /\ nodeBody.ok /\ NodeType \in SupportedTypes
     /\ ~nodeBody.base_config.isNil) =>
    /\ ~out.panic
    /\ ReturnedNode
    /\ out.node.PushInterval = ExpectedSeconds(nodeBody.base_config.PushInterval)
    /\ out.node.PullInterval = ExpectedSeconds(nodeBody.base_config.PullInterval)

(* C26: a GetNodeInfo call that got a body ends with a NodeInfo and a nil  *)
(* error, or with no NodeInfo and a nil or non-nil error; never with a     *)
(* NodeInfo and an error, and never without returning.                     *)
C26_ThreeOutcomes ==
  nodeBody # NoBody =>
    /\ ~out.panic
    /\ out.err # "none"
    /\ ~out.isNil => out.err = "nil"

(* C28: when the decode of a body fails, GetNodeInfo returns no NodeInfo   *)
(* and a decode error that names the client's node type and carries the   *)
(* cause of the failure.                                                   *)
C28_DecodeFailureNamed ==
  (nodeBody # NoBody /\ ~nodeBody.ok /\ NodeType \in SupportedTypes) =>
    /\ out.isNil
    /\ out.err = "decode"
    /\ out.names = NodeType
    /\ out.cause = nodeBody.fault

(* C28 witness: a hysteria2 client got a body of the wrong shape and the   *)
(* error names hysteria2.                                                  *)
C28_Witness ==
  /\ NodeType = Hysteria2
  /\ nodeBody.fault = "type"
  /\ out.err = "decode"
  /\ out.names = Hysteria2
  /\ out.cause = "type"


(* the route the loop is at, and a pass of the loop *)
CurrentRoute == cm.Routes[routeIndex + 1]
RouteStep == routeIndex >= 0 /\ routeIndex' = routeIndex + 1
CurrentTokens == Matchs(CurrentRoute.Match)

(* the string elements of a generic list, in order *)
RECURSIVE StringElems(_)
StringElems(list) ==
  IF list = <<>> THEN <<>>
  ELSE IF Head(list).isString THEN <<Head(list).str>> \o StringElems(Tail(list))
  ELSE StringElems(Tail(list))

(* pieces put together again with a comma between them *)
RECURSIVE JoinComma(_)
JoinComma(strs) ==
  IF Len(strs) = 1 THEN strs[1] ELSE strs[1] \o <<Comma>> \o JoinComma(Tail(strs))

(* C22: the tokens of a route gone through: a string match gives its pieces between the *)
(* commas, a list of strings gives itself, a generic list gives its string *)
(* elements in order and nothing for an element that is no string.         *)
C22_TokenSequence ==
  routeIndex >= 0 =>
    \A k \in 1..routeIndex :
      LET match == cm.Routes[k].Match
          tokens == Matchs(match)
      IN /\ match.kind = "string" =>
              /\ JoinComma(tokens) = match.str
              /\ \A j \in DOMAIN tokens : \A q \in DOMAIN tokens[j] : tokens[j][q] # Comma
         /\ match.kind = "[]string" => tokens = match.list
         /\ match.kind = "[]interface{}" => tokens = StringElems(match.list)

(* the tokens that go to Protocol (or, if not, to Regexp) with the prefix removed *)
RECURSIVE Stripped(_, _)
Stripped(tokens, toProtocol) ==
  IF tokens = <<>> THEN <<>>
  ELSE LET v == Head(tokens)
           isProtocol == HasPrefix(v, ProtocolPrefix)
           bare == IF isProtocol THEN SubSeq(v, Len(ProtocolPrefix) + 1, Len(v))
                   ELSE IF HasPrefix(v, RegexpPrefix) THEN SubSeq(v, Len(RegexpPrefix) + 1, Len(v))
                   ELSE v
       IN IF isProtocol = toProtocol THEN <<bare>> \o Stripped(Tail(tokens), toProtocol)
          ELSE Stripped(Tail(tokens), toProtocol)

(* the number of tokens of the block routes of a list *)
RECURSIVE BlockTokenCount(_)
BlockTokenCount(routes) ==
  IF routes = <<>> THEN 0
  ELSE (IF Head(routes).Action = "block" THEN Len(Matchs(Head(routes).Match)) ELSE 0)
       + BlockTokenCount(Tail(routes))

ExampleBlockRoute == Route(StringMatch(<<"p", "r", "o", "t", "o", "c", "o", "l", ":", "b", "i", "t", "t", "o", "r", "r", "e", "n", "t", ",", "r", "e", "g", "e", "x", "p", ":", "^", "e", "v", "i", "l">>), "block")

(* C23: a block route appends each of its tokens to exactly one list, in   *)
(* order: a token with prefix "protocol:" to Rules.Protocol without the    *)
(* prefix, any other to Rules.Regexp without an optional "regexp:"; the    *)
(* two lists together have as many entries as the block routes gone        *)
(* through have tokens; "protocol:bittorrent,regexp:^evil" gives           *)
(* Protocol = ["bittorrent"] and Regexp = ["^evil"].                       *)
C23_BlockRules ==
  /\ [](routeIndex >= 0 =>
          Len(node.Rules.Protocol) + Len(node.Rules.Regexp)
            = BlockTokenCount(SubSeq(cm.Routes, 1, routeIndex)))
  /\ []((routeIndex = 1 /\ cm.Routes = <<ExampleBlockRoute>>) =>
          /\ node.Rules.Protocol = <<<<"b", "i", "t", "t", "o", "r", "r", "e", "n", "t">>>>
          /\ node.Rules.Regexp = <<<<"^", "e", "v", "i", "l">>>>)
  /\ [][(RouteStep /\ CurrentRoute.Action = "block") =>
          /\ node'.Rules.Protocol = node.Rules.Protocol \o Stripped(CurrentTokens, TRUE)
          /\ node'.Rules.Regexp = node.Rules.Regexp \o Stripped(CurrentTokens, FALSE)
          /\ node'.RawDNS = node.RawDNS]_vars

(* C23 witness: the example route was gone through after another block    *)
(* route and both lists hold entries of both.                              *)
C23_Witness ==
  /\ routeIndex = 2
  /\ cm.Routes[2] = ExampleBlockRoute
  /\ cm.Routes[1].Action = "block"
  /\ Len(node.Rules.Protocol) = 1
  /\ Len(node.Rules.Regexp) >= 2

(* C24: a dns route at position i whose tokens are non-empty and do not    *)
(* start with "main" sets DNSMap[decimal i] to its action value and all    *)
(* its tokens and leaves DNSJson; one whose first token is "main" and that *)
(* has more tokens sets DNSJson to the other tokens put together with no   *)
(* separator and leaves DNSMap; one with no token or only "main" changes   *)
(* neither.                                                                *)
C24_DnsRoute ==
  [][(RouteStep /\ CurrentRoute.Action = "dns") =>
       LET tokens == CurrentTokens
           key == Itoa(routeIndex)
           dns == node.RawDNS
       IN /\ node'.Rules = node.Rules
          /\ (tokens # <<>> /\ tokens[1] # Main) =>
               /\ DOMAIN node'.RawDNS.DNSMap = (DOMAIN dns.DNSMap) \cup {key}
               /\ node'.RawDNS.DNSMap[key] =
                    [address |-> CurrentRoute.ActionValue, domains |-> tokens]
               /\ \A k \in (DOMAIN dns.DNSMap) \ {key} : node'.RawDNS.DNSMap[k] = dns.DNSMap[k]
               /\ node'.RawDNS.DNSJson = dns.DNSJson
          /\ (Len(tokens) >= 2 /\ tokens[1] = Main) =>
               /\ node'.RawDNS.DNSJson = Join(Tail(tokens))
               /\ node'.RawDNS.DNSMap = dns.DNSMap
          /\ (tokens = <<>> \/ tokens = <<Main>>) => node'.RawDNS = dns]_vars

(* C24 witness: the second route of the list, a dns route, has its entry   *)
(* under the key "1", and the first route set DNSJson.                     *)
C24_Witness ==
  /\ routeIndex = 2
  /\ DOMAIN node.RawDNS.DNSMap = {<<"1">>}
  /\ node.RawDNS.DNSJson = <<"a", "b">>

(* C29: a pass of the loop writes at most one of DNSMap and DNSJson, and   *)
(* never removes or changes a DNSMap entry or a DNSJson written by an      *)
(* earlier route.                                                          *)
C29_RawDNSAccumulates ==
  [][RouteStep =>
       /\ (node'.RawDNS.DNSMap = node.RawDNS.DNSMap \/ node'.RawDNS.DNSJson = node.RawDNS.DNSJson)
       /\ \A k \in DOMAIN node.RawDNS.DNSMap :
            k \in DOMAIN node'.RawDNS.DNSMap /\ node'.RawDNS.DNSMap[k] = node.RawDNS.DNSMap[k]
       /\ node.RawDNS.DNSJson # <<>> => node'.RawDNS.DNSJson = node.RawDNS.DNSJson]_vars

(* C30: a route whose action is neither "block" nor "dns" leaves           *)
(* Rules.Protocol, Rules.Regexp, DNSMap and DNSJson as they were, and the  *)
(* pass goes on.                                                           *)
C30_OtherActionIgnored ==
  [][(routeIndex >= 0 /\ routeIndex < Len(cm.Routes) /\ routeIndex' # routeIndex
        /\ CurrentRoute.Action \notin {"block", "dns"}) =>
       /\ node'.Rules.Protocol = node.Rules.Protocol
       /\ node'.Rules.Regexp = node.Rules.Regexp
       /\ node'.RawDNS.DNSMap = node.RawDNS.DNSMap
       /\ node'.RawDNS.DNSJson = node.RawDNS.DNSJson
       /\ routeIndex' = routeIndex + 1]_vars

(* C30 witness: a route with another action was gone through after a block *)
(* route and the rules of that one are still there.                        *)
C30_Witness ==
  /\ routeIndex = 2
  /\ cm.Routes[2].Action = "default_out"
  /\ cm.Routes[2].Match.kind = "string"
  /\ cm.Routes[1] = ExampleBlockRoute
  /\ node.Rules.Protocol # <<>>

(* C31: a NodeInfo returned with a nil error for a supported node type has *)
(* Common set to the common record of the payload, with Routes and         *)
(* BaseConfig of that record cleared, while the rules, the DNS values and  *)
(* the intervals taken from them stay on the NodeInfo.                     *)
C31_CommonCleared ==
  (ReturnedNode /\ NodeType \in SupportedTypes) =>
    LET extracted == ProcessRoutes(NewNodeInfo(NodeId, NodeType), nodeBody.routes, 0)
    IN /\ ~out.node.Common.isNil
       /\ out.node.Common.ServerPort = nodeBody.server_port
       /\ out.node.Common.Routes = <<>>
       /\ out.node.Common.BaseConfig = NilBaseConfig
       /\ out.node.Rules = extracted.Rules
       /\ out.node.RawDNS = extracted.RawDNS
       /\ nodeBody.routes = <<ExampleBlockRoute>> =>
            /\ out.node.Rules.Protocol = <<<<"b", "i", "t", "t", "o", "r", "r", "e", "n", "t">>>>
            /\ out.node.Rules.Regexp = <<<<"^", "e", "v", "i", "l">>>>
       /\ ~nodeBody.base_config.isNil =>
            /\ out.node.PushInterval = ToTime(impl, nodeBody.base_config.PushInterval).seconds
            /\ out.node.PullInterval = ToTime(impl, nodeBody.base_config.PullInterval).seconds
            /\ nodeBody.base_config.PushInterval = IntValue(30) => out.node.PushInterval = 30

(* C31 witness: a payload with a block route was returned; its rules are   *)
(* on the NodeInfo and the routes of the common record are gone.           *)
C31_Witness ==
  /\ ReturnedNode
  /\ NodeType \in SupportedTypes
  /\ nodeBody.routes = <<ExampleBlockRoute>>
  /\ out.node.Rules.Protocol # <<>>
  /\ out.node.Common.Routes = <<>>
  /\ ~out.node.Common.isNil

(* C32: the Security of a NodeInfo returned with a nil error is one of the *)
(* three values None, Tls, Reality, for every node type and every payload  *)
(* that decodes.                                                           *)
C32_SecurityEnum ==
  ReturnedNode => out.node.Security \in {None, Tls, Reality}

(* C33: once New has returned the client, no operation changes its node    *)
(* type or its node id, which New set to the normalized type and the id of *)
(* the Config; every NodeInfo that GetNodeInfo returns carries that type   *)
(* and that id.                                                            *)
C33_NodeTypeFixed ==
  /\ [][/\ constructed => (constructed' /\ NodeType' = NodeType /\ NodeId' = NodeId)
        /\ (~constructed /\ constructed') =>
             (NodeType' = NormalizeNodeType(config.NodeType) /\ NodeId' = config.NodeID)]_vars
  /\ [](ReturnedNode => (out.node.Type = NodeType /\ out.node.Id = NodeId))

(* C33 witness: a client made for "v2ray" has switched debug on, got a     *)
(* NodeInfo of type vmess and posted a traffic report.                     *)
C33_Witness ==
  /\ config.NodeType = V2ray
  /\ NodeType = Vmess
  /\ NodeId = TestNodeID
  /\ debug
  /\ report.path = "push"
  /\ ReturnedNode
  /\ out.node.Type = Vmess

(* C36: the payload of ReportUserTraffic has one entry for each user id of *)
(* the input, holding the upload and download of the last record of that   *)
(* user id; the call returns an error exactly when the transport failed or *)
(* the status is 400 or more, and it leaves the cache as it was.           *)
C36_ReportUserTraffic ==
  [][(report' # report /\ report'.path = "push") =>
       LET userTraffic == report'.input
           data == report'.body
           last(k) == \A j \in DOMAIN userTraffic : j > k => userTraffic[j].UID # userTraffic[k].UID
       IN /\ DOMAIN data = {userTraffic[k].UID : k \in DOMAIN userTraffic}
          /\ \A k \in DOMAIN userTraffic :
               last(k) => data[userTraffic[k].UID] = <<userTraffic[k].Upload, userTraffic[k].Download>>
          /\ (report'.err # "nil") <=> (report'.resp.err \/ report'.resp.status >= 400)
          /\ UNCHANGED <<cache, sources, mu>>]_vars

(* C36 witness: two records of user 1 were reported after the cache was    *)
(* filled; the payload holds the pair of the second and the call returned  *)
(* no error.                                                               *)
C36_Witness ==
  /\ report.path = "push"
  /\ report.input = <<UserTraffic(1, 10, 5), UserTraffic(1, 20, 7)>>
  /\ DOMAIN report.body = {1}
  /\ report.body[1] = <<20, 7>>
  /\ report.resp.status = 399
  /\ report.err = "nil"
  /\ nodeEtag # ""
  /\ responseBodyHash # ""

(* C34: a GetNodeInfo call that receives a 200 response whose body hash is *)
(* the stored hash and whose ETag is not the stored ETag ends there with   *)
(* Unchanged and stores nothing, so the stored ETag stays the old one.     *)
C34_EtagOnlyChangeIgnored ==
  [][\A t \in Threads :
       ( /\ op[t] = "node"
         /\ pc[t] = "n_request"
         /\ pc'[t] # pc[t]
         /\ ~resp'[t].err
         /\ resp'[t].status = StatusOK
         /\ ~WriteHeld
         /\ responseBodyHash # ""
         /\ Hash(resp'[t].body) = responseBodyHash
         /\ resp'[t].etag # nodeEtag )
       => ( /\ pc'[t] = "done"
            /\ ret'[t].node = "nil"
            /\ ret'[t].err = "nil"
            /\ nodeEtag' = nodeEtag
            /\ responseBodyHash' = responseBodyHash )]_vars

\* The panel has changed at most once, and that change was one of the body.
\* A 200 response with the body the panel started with was then served
\* before the change, and a 200 response with another body after it.
OneBodyChange == panelChanges <= 1 /\ (panelChanges = 1 => panelBody # "B1")
ServedBeforeChange(r) == ~r.err /\ r.status = StatusOK /\ r.body = "B1"
ServedAfterChange(r) == ~r.err /\ r.status = StatusOK /\ r.body # "B1"

(* C35: while the panel changes the body with several GetNodeInfo calls in *)
(* flight, no commit replaces the stored pair by the pair of a response    *)
(* served earlier than the response the stored pair came from; and when    *)
(* all calls have ended, the stored pair is that of the latest response    *)
(* served.                                                                 *)
C35_Freshness ==
  /\ [][\A t \in Threads :
          (OneBodyChange /\ pc[t] = "n_lock" /\ pc'[t] = "n_writeEtag")
            => ~(ServedAfterChange(hashSource) /\ ServedBeforeChange(resp[t]))]_vars
  /\ []( ( /\ OneBodyChange
           /\ \A t \in Threads : pc[t] \in {"idle", "done"}
           /\ \A t \in Threads : op[t] = "node" => (resp[t].err \/ resp[t].status < 400)
           /\ \E t \in Threads : op[t] = "node" /\ ServedAfterChange(resp[t]) )
         => ( /\ ServedAfterChange(hashSource)
              /\ StoredPair = <<Hash(hashSource.body), hashSource.etag>> ) )

====
